---- MODULE Spec2Model ----
(***************************************************************************)
(* Model of the delegation-manager scripts: delegate.js (the delegate      *)
(* program) and governance-cleanup.js (the cleanup program).               *)
(*                                                                         *)
(* The pure part (reading the voting state, building the operation plan,   *)
(* splitting it into batches) is modelled as operators that compute what   *)
(* the JavaScript computes, in the same order.  The submission loops, the  *)
(* signAndSend callbacks, the deadline timer and the chain's status        *)
(* notifications are modelled as a state machine.                          *)
(***************************************************************************)
EXTENDS Integers, Sequences, FiniteSets, TLC

VARIABLES
    prog,           \* which script runs: "delegate" or "cleanup"
    args,           \* the command line: which arguments and options are given
    networkArg,     \* the value given to --network as typed, "absent" without the option
    conviction,     \* delegate: the <conviction> argument
    balanceAmount,  \* delegate: parseFloat(<balance>), "NaN" when it is not a number
    delegateTo,     \* delegate: the <delegate_to> argument
    keyfileExists,  \* fs.existsSync(keyfile)
    dryRun,         \* --dry-run
    trackIndices,   \* delegate: the --track values, in argument order
    votingEntries,  \* cleanup: what votingFor.entries(account) returns, in the chain's order
    chainBlock,     \* cleanup: the chain's height, the number of the header getHeader() returns
    unlockOnly,     \* cleanup: --unlock-only
    network,        \* the network name the script settled on, "undefined" before
    lockDays,       \* delegate: convictionInfo.lockMultiplier * network.baseLockDays
    balancePlanck,  \* delegate: the balance in planck
    conn,           \* the connection to the chain: "none", "open", "closed", "failed"
    queried,        \* a state query has been issued to the chain
    error,          \* the error that ended the run, "none" if there is none
    locals,         \* cleanup: delegations, votes, priorLocks and currentBlock inside getVotingInfo
    info,           \* cleanup: the value getVotingInfo returned
    calls,          \* the operation plan
    answer,         \* what the user typed at the confirmation prompt, "unasked" before
    batches,        \* the plan split into batches
    pc,             \* position of the main control flow
    i,              \* loop index of the submission loop (0-based, as in the code)
    sub,            \* per batch: state of the promise signAndSend returned
    chain,          \* per batch: chain-side state of the broadcast transaction
    failed,         \* per batch: the block holding the transaction reports ExtrinsicFailed
    timer,          \* per batch: state of the deadline timer (delegate only)
    clock,          \* ticks left until the armed deadline timer is due
    outcome,        \* per batch: state of the promise the loop awaits
    trace,          \* history: the loop's sends, settlements and delays, in order
    sent,           \* the transactions signed and broadcast, in order
    exitCode        \* process exit status, -1 while running

vars == << prog, args, networkArg, conviction, balanceAmount, delegateTo, keyfileExists,
           dryRun, trackIndices, votingEntries, chainBlock, unlockOnly,
           network, lockDays, balancePlanck, conn, queried, error,
           locals, info, calls, answer, batches, pc, i, sub, chain, failed, timer, clock,
           outcome, trace, sent, exitCode >>

inputVars == << prog, args, networkArg, conviction, balanceAmount, delegateTo, keyfileExists,
                dryRun, trackIndices, votingEntries, chainBlock, unlockOnly >>
\* What the start of main settles, once
startVars == << network, lockDays, balancePlanck >>
monitorVars == << sub, chain, failed, timer, clock, outcome >>

(***************************************************************************)
(* Bounds of the model                                                     *)
(***************************************************************************)
MaxEntries == 2        \* most per-track entries the chain returns for the account
MaxUserTracks == 5     \* most --track options on the delegate command line
TimeoutTicks == 2      \* the 120000 ms deadline, in clock ticks of the model
MaxRunEntries == 2     \* most per-track entries in a modelled cleanup run
MaxRunTracks == 9      \* most --track options in a modelled delegate run
MaxHeight == 3         \* highest block the chain reaches while a read is modelled
MaxLiveTracks == 5     \* most --track options in the runs checked for termination
MaxBatchLimit == 5     \* largest batch limit a built plan is split with

TrackUniverse == {0, 2, 10}     \* track ids the bounded inputs are drawn from
RefUniverse == {1, 2}           \* referendum indices the bounded inputs are drawn from
BlockUniverse == {1, 2}         \* block heights and unlock heights
AmountUniverse == {0, 5}        \* prior-lock amounts ("0" and a nonzero amount)

(***************************************************************************)
(* Static tables                                                           *)
(***************************************************************************)
NETWORKS ==
    [ kusama   |-> [ decimals |-> 12, baseLockDays |-> 7,  maxTracksPerBatch |-> 4 ],
      polkadot |-> [ decimals |-> 10, baseLockDays |-> 28, maxTracksPerBatch |-> 4 ] ]

CLEANUP_NETWORKS ==
    [ polkadot |-> [ decimals |-> 10, maxTracksPerBatch |-> 4 ],
      kusama   |-> [ decimals |-> 12, maxTracksPerBatch |-> 4 ] ]

NetworkNames == {"kusama", "polkadot"}

ALL_TRACKS == << 0, 1, 2, 10, 11, 12, 13, 14, 15, 20, 21, 30, 31, 32, 33, 34 >>

\* delegate.js CONVICTION_MULTIPLIERS.  multiplier is a fraction << numerator,
\* denominator >>: 0.1 is << 1, 10 >>
CONVICTION_MULTIPLIERS ==
    [ None     |-> [ multiplier |-> << 1, 10 >>, lockMultiplier |-> 0 ],
      Locked1x |-> [ multiplier |-> << 1, 1 >>,  lockMultiplier |-> 1 ],
      Locked2x |-> [ multiplier |-> << 2, 1 >>,  lockMultiplier |-> 2 ],
      Locked3x |-> [ multiplier |-> << 3, 1 >>,  lockMultiplier |-> 4 ],
      Locked4x |-> [ multiplier |-> << 4, 1 >>,  lockMultiplier |-> 8 ],
      Locked5x |-> [ multiplier |-> << 5, 1 >>,  lockMultiplier |-> 16 ],
      Locked6x |-> [ multiplier |-> << 6, 1 >>,  lockMultiplier |-> 32 ] ]

(***************************************************************************)
(* JavaScript object lookup and the computations at the start of main      *)
(***************************************************************************)
\* Property names every object literal inherits from Object.prototype
ObjectPrototypeKeys ==
    { "constructor", "toString", "valueOf", "hasOwnProperty", "__proto__" }

\* table[key] is an own property of the object literal
hasOwn(table, key) == key \in DOMAIN table

\* Truthiness of table[key], as tested by if (!table[key]): an own property
\* (all of them are objects) or an inherited one (a function or an object)
isTruthy(table, key) == hasOwn(table, key) \/ key \in ObjectPrototypeKeys

\* String.prototype.toLowerCase on the strings of the model
toLowerCase(str) ==
    IF str = "YES" THEN "yes"
    ELSE IF str = "Y" THEN "y"
    ELSE IF str = "KUSAMA" THEN "kusama"
    ELSE str

\* delegate.js: networkIdx !== -1 && args[networkIdx + 1]
\*   ? args[networkIdx + 1].toLowerCase() : 'kusama'
delegateNetworkName(arg) == IF arg /= "absent" THEN toLowerCase(arg) ELSE "kusama"

\* governance-cleanup.js parseArgs: config.network = args[++i]?.toLowerCase()
cleanupNetworkName(arg) == IF arg /= "absent" THEN toLowerCase(arg) ELSE "undefined"

\* A JavaScript number: NaN or a whole number
NaN == [ isNaN |-> TRUE, value |-> 0 ]
Num(n) == [ isNaN |-> FALSE, value |-> n ]

\* Mutant: the vote multiplier is used for the lock period
lockDaysOfSwapped(convictionName, networkName) ==
    IF hasOwn(CONVICTION_MULTIPLIERS, convictionName) /\ hasOwn(NETWORKS, networkName)
    THEN Num(CONVICTION_MULTIPLIERS[convictionName].multiplier[1]
             * NETWORKS[networkName].baseLockDays)
    ELSE NaN

\* lockDays = convictionInfo.lockMultiplier * network.baseLockDays; NaN when
\* either operand is undefined (the name is not an own property of its table)
lockDaysOf(convictionName, networkName) ==
    IF hasOwn(CONVICTION_MULTIPLIERS, convictionName) /\ hasOwn(NETWORKS, networkName)
    THEN Num(CONVICTION_MULTIPLIERS[convictionName].lockMultiplier
             * NETWORKS[networkName].baseLockDays)
    ELSE NaN

\* balancePlanck = BigInt(Math.floor(balanceAmount * 10 ** decimals)) for a
\* whole balanceAmount: the value units * 10^decimals, kept as the pair
toPlanck(amount, decimals) == [ units |-> amount.value, decimals |-> decimals ]

\* BigInt(x) throws a RangeError when x is NaN: balanceAmount is NaN, or
\* network.decimals is undefined
planckThrows(amount, networkName) == amount.isNaN \/ ~hasOwn(NETWORKS, networkName)

\* api.tx.convictionVoting.delegate(...) encodes its arguments and may throw.
\* The encoder is not part of the scripts: for a conviction that is not one of
\* the seven names, or a negative balance, both outcomes are possible.
encodeOutcomes(conv, balance) ==
    IF hasOwn(CONVICTION_MULTIPLIERS, conv) /\ balance.units >= 0
    THEN { "encoded" }
    ELSE { "encoded", "throws" }

(***************************************************************************)
(* Helpers for JavaScript arrays (0-based indices, as in the code)         *)
(***************************************************************************)
Min(a, b) == IF a < b THEN a ELSE b
Max(a, b) == IF a > b THEN a ELSE b

\* Array.prototype.slice(start, end) for 0 <= start <= end
slice(array, start, end) ==
    SubSeq(array, start + 1, Min(end, Len(array)))

RECURSIVE Flatten(_)
Flatten(seqs) ==
    IF seqs = << >> THEN << >> ELSE Head(seqs) \o Flatten(Tail(seqs))

\* Sequences over S of length at most n
RECURSIVE BoundedSeqs(_, _)
BoundedSeqs(S, n) ==
    IF n = 0 THEN { << >> } ELSE BoundedSeqs(S, n - 1) \cup [1..n -> S]

\* Sequences over S without repetition, of length at most n
DistinctSeqs(S, n) ==
    { s \in BoundedSeqs(S, n) : \A a, b \in 1..Len(s) : a /= b => s[a] /= s[b] }

(***************************************************************************)
(* Splitting a plan into batches                                           *)
(***************************************************************************)
\* governance-cleanup.js chunkArray: for (i = 0; i < array.length; i += size)
\*   chunks.push(array.slice(i, i + size))
RECURSIVE chunkLoop(_, _, _)
chunkLoop(array, size, k) ==
    IF k < Len(array)
    THEN << slice(array, k, k + size) >> \o chunkLoop(array, size, k + size)
    ELSE << >>

\* Mutant: the loop stops when fewer than `size` elements are left
RECURSIVE chunkLoopFullOnly(_, _, _)
chunkLoopFullOnly(array, size, k) ==
    IF k + size <= Len(array)
    THEN << slice(array, k, k + size) >> \o chunkLoopFullOnly(array, size, k + size)
    ELSE << >>

chunkArrayFullOnly(array, size) == chunkLoopFullOnly(array, size, 0)

\* Mutant: chunks.unshift instead of chunks.push, the last chunk comes first
RECURSIVE chunkLoopNewestFirst(_, _, _)
chunkLoopNewestFirst(array, size, k) ==
    IF k < Len(array)
    THEN chunkLoopNewestFirst(array, size, k + size) \o << slice(array, k, k + size) >>
    ELSE << >>

chunkArrayNewestFirst(array, size) == chunkLoopNewestFirst(array, size, 0)

chunkArray(array, size) == chunkLoop(array, size, 0)

\* delegate.js main: for (i = 0; i < calls.length; i += MAX_PER_BATCH)
\*   batches.push(calls.slice(i, i + MAX_PER_BATCH))
RECURSIVE splitLoop(_, _, _)
splitLoop(array, size, k) ==
    IF k < Len(array)
    THEN << slice(array, k, k + size) >> \o splitLoop(array, size, k + size)
    ELSE << >>

splitBatches(array, MAX_PER_BATCH) == splitLoop(array, MAX_PER_BATCH, 0)

(***************************************************************************)
(* delegate.js: the plan                                                   *)
(***************************************************************************)
\* Mutant: the --track options are ignored
parseTracksIgnoresOptions(indices) == ALL_TRACKS

\* tracks = ALL_TRACKS unless at least one --track was given
parseTracks(indices) == IF Len(indices) > 0 THEN indices ELSE ALL_TRACKS

\* calls = tracks.map(trackId => delegate(trackId, delegateTo, conviction, balancePlanck))
delegateCalls(tracks, target, conv, balance) ==
    [ k \in 1..Len(tracks) |-> << "Delegate", tracks[k], target, conv, balance >> ]

(***************************************************************************)
(* governance-cleanup.js: reading the voting state                         *)
(***************************************************************************)
\* One entry of votingFor.entries(account): a track id and a Voting value
Delegating == [ kind |-> "Delegating", votes |-> << >>, prior |-> << 0, 0 >> ]
Casting(votes, prior) == [ kind |-> "Casting", votes |-> votes, prior |-> prior ]
isDelegating(voting) == voting.kind = "Delegating"
isCasting(voting) == voting.kind = "Casting"

\* Mutant: the boundary block is not yet expired
lockIsExpiredStrict(currentBlock, unlockBlock) == currentBlock > unlockBlock

\* isExpired: currentBlock >= unlockBlock
lockIsExpired(currentBlock, unlockBlock) == currentBlock >= unlockBlock

\* blocksRemaining: Math.max(0, unlockBlock - currentBlock)
lockBlocksRemaining(currentBlock, unlockBlock) == Max(0, unlockBlock - currentBlock)

EmptyInfo == [ delegations |-> << >>, votes |-> << >>, priorLocks |-> << >>, currentBlock |-> 0 ]

\* The body of the for loop over votingEntries
visitEntry(acc, entry, currentBlock) ==
    LET trackId == entry.trackId
        voting == entry.voting
    IN  IF isDelegating(voting)
        THEN [ acc EXCEPT !.delegations = Append(@, [ trackId |-> trackId ]) ]
        ELSE IF isCasting(voting)
        THEN LET withVotes ==
                    [ acc EXCEPT !.votes = @ \o
                        [ j \in 1..Len(voting.votes) |->
                            [ trackId |-> trackId, refIndex |-> voting.votes[j] ] ] ]
                 prior == voting.prior
                 unlockBlock == prior[1]
                 amount == prior[2]
             IN  IF Len(prior) >= 2 /\ unlockBlock > 0 /\ amount /= 0
                 THEN [ withVotes EXCEPT !.priorLocks = Append(@,
                          [ trackId |-> trackId,
                            unlockBlock |-> unlockBlock,
                            amount |-> amount,
                            isExpired |-> lockIsExpired(currentBlock, unlockBlock),
                            blocksRemaining |-> lockBlocksRemaining(currentBlock, unlockBlock) ]) ]
                 ELSE withVotes
        ELSE acc

RECURSIVE scanEntries(_, _, _)
scanEntries(acc, entries, currentBlock) ==
    IF entries = << >> THEN acc
    ELSE scanEntries(visitEntry(acc, Head(entries), currentBlock), Tail(entries), currentBlock)

\* Mutant: the header is read again for every entry, and a block has arrived
\* each time
RECURSIVE scanEntriesRereading(_, _, _)
scanEntriesRereading(acc, entries, currentBlock) ==
    IF entries = << >> THEN acc
    ELSE scanEntriesRereading(visitEntry(acc, Head(entries), currentBlock), Tail(entries),
                              currentBlock + 1)

getVotingInfoRereads(entries, currentBlock) ==
    scanEntriesRereading([ EmptyInfo EXCEPT !.currentBlock = currentBlock ], entries,
                         currentBlock)

\* getVotingInfo: the header is read once, before the loop over the entries
getVotingInfo(entries, currentBlock) ==
    scanEntries([ EmptyInfo EXCEPT !.currentBlock = currentBlock ], entries, currentBlock)

(***************************************************************************)
(* governance-cleanup.js: the cleanup plan                                 *)
(***************************************************************************)
\* trackData is a JavaScript Map: it iterates in insertion order.  It is
\* modelled as the sequence of its entries in insertion order.
mapIndex(m, key) ==
    IF \E k \in 1..Len(m) : m[k].trackId = key
    THEN CHOOSE k \in 1..Len(m) : m[k].trackId = key
    ELSE 0

\* Mutant: a new key is put in front of the others
mapEnsureInFront(m, key) ==
    IF mapIndex(m, key) = 0
    THEN << [ trackId |-> key, delegated |-> FALSE, votes |-> << >> ] >> \o m
    ELSE m

mapEnsure(m, key) ==
    IF mapIndex(m, key) = 0
    THEN Append(m, [ trackId |-> key, delegated |-> FALSE, votes |-> << >> ])
    ELSE m

RECURSIVE addDelegations(_, _)
addDelegations(m, dels) ==
    IF dels = << >> THEN m
    ELSE LET m1 == mapEnsure(m, Head(dels).trackId)
             k == mapIndex(m1, Head(dels).trackId)
         IN  addDelegations([ m1 EXCEPT ![k].delegated = TRUE ], Tail(dels))

RECURSIVE addVotes(_, _)
addVotes(m, vs) ==
    IF vs = << >> THEN m
    ELSE LET m1 == mapEnsure(m, Head(vs).trackId)
             k == mapIndex(m1, Head(vs).trackId)
         IN  addVotes([ m1 EXCEPT ![k].votes = Append(@, Head(vs).refIndex) ], Tail(vs))

buildTrackData(delegations, votes) == addVotes(addDelegations(<< >>, delegations), votes)

\* First: all undelegates
RECURSIVE undelegateCalls(_)
undelegateCalls(trackData) ==
    IF trackData = << >> THEN << >>
    ELSE (IF Head(trackData).delegated
          THEN << << "Undelegate", Head(trackData).trackId >> >>
          ELSE << >>) \o undelegateCalls(Tail(trackData))

\* Second: all vote removals
RECURSIVE removeVoteCalls(_)
removeVoteCalls(trackData) ==
    IF trackData = << >> THEN << >>
    ELSE [ j \in 1..Len(Head(trackData).votes) |->
             << "RemoveVote", Head(trackData).trackId, Head(trackData).votes[j] >> ]
         \o removeVoteCalls(Tail(trackData))

\* tracksToUnlock is a JavaScript Set: insertion order, no repetition
RECURSIVE tracksToUnlock(_, _)
tracksToUnlock(set, priorLocks) ==
    IF priorLocks = << >> THEN set
    ELSE LET lock == Head(priorLocks)
             present == \E k \in 1..Len(set) : set[k] = lock.trackId
         IN  tracksToUnlock(IF lock.isExpired /\ ~present THEN Append(set, lock.trackId) ELSE set,
                            Tail(priorLocks))

\* Mutant: every recorded lock is unlocked, expired or not
unlockCallsAllLocks(priorLocks) ==
    [ k \in 1..Len(priorLocks) |-> << "Unlock", priorLocks[k].trackId >> ]

\* Third: unlock expired locks
unlockCalls(priorLocks) ==
    LET set == tracksToUnlock(<< >>, priorLocks)
    IN  [ k \in 1..Len(set) |-> << "Unlock", set[k] >> ]

\* Mutant: the unlock group is emitted first
buildCleanupCallsUnlockFirst(delegations, votes, priorLocks, only) ==
    unlockCalls(priorLocks) \o
    (IF ~only
     THEN LET trackData == buildTrackData(delegations, votes)
          IN  undelegateCalls(trackData) \o removeVoteCalls(trackData)
     ELSE << >>)

\* Mutant: with unlockOnly only the undelegates are skipped
buildCleanupCallsKeepsVotes(delegations, votes, priorLocks, only) ==
    LET trackData == buildTrackData(delegations, votes)
    IN  (IF ~only THEN undelegateCalls(trackData) ELSE << >>)
        \o removeVoteCalls(trackData)
        \o unlockCalls(priorLocks)

buildCleanupCalls(delegations, votes, priorLocks, only) ==
    (IF ~only
     THEN LET trackData == buildTrackData(delegations, votes)
          IN  undelegateCalls(trackData) \o removeVoteCalls(trackData)
     ELSE << >>)
    \o unlockCalls(priorLocks)

(***************************************************************************)
(* The transaction lifecycle: promises, the deadline timer, the callbacks  *)
(***************************************************************************)
TerminalOutcomes ==
    { "Finalized", "DispatchFailed", "Dropped", "Invalid", "Usurped", "TimedOut", "SendError" }
FailureOutcomes == TerminalOutcomes \ { "Finalized" }

\* Mutant: a later resolve or reject replaces the value the promise holds
settlePromiseOverwrites(current, result) ==
    IF result /= "none" THEN result ELSE current

\* resolve(...) / reject(...) on a promise: only the first call settles it
settlePromise(current, result) ==
    IF current = "pending" /\ result /= "none" THEN result ELSE current

\* clearTimeout(timeout): cancels a timer that has not fired yet
clearTimeout(t) == IF t = "armed" THEN "cleared" ELSE t

\* Mutant: the Finalized branch resolves without clearTimeout
delegateOnStatusKeepsTimer(status, dispatchError) ==
    IF dispatchError THEN [ clear |-> TRUE, settle |-> "DispatchFailed" ]
    ELSE IF status = "dropped" THEN [ clear |-> TRUE, settle |-> "Dropped" ]
    ELSE IF status = "invalid" THEN [ clear |-> TRUE, settle |-> "Invalid" ]
    ELSE IF status = "usurped" THEN [ clear |-> TRUE, settle |-> "Usurped" ]
    ELSE IF status = "finalized" THEN [ clear |-> FALSE, settle |-> "Finalized" ]
    ELSE [ clear |-> FALSE, settle |-> "none" ]

\* Mutant: the callback only logs the ExtrinsicFailed event and never looks at
\* dispatchError
delegateOnStatusOnlyLogsError(status, dispatchError) ==
    IF status = "dropped" THEN [ clear |-> TRUE, settle |-> "Dropped" ]
    ELSE IF status = "invalid" THEN [ clear |-> TRUE, settle |-> "Invalid" ]
    ELSE IF status = "usurped" THEN [ clear |-> TRUE, settle |-> "Usurped" ]
    ELSE IF status = "finalized" THEN [ clear |-> TRUE, settle |-> "Finalized" ]
    ELSE [ clear |-> FALSE, settle |-> "none" ]

\* delegate.js: the callback given to signAndSend.  It yields whether the
\* deadline timer is cleared and what the promise is settled with ("none":
\* neither resolve nor reject is called).
delegateOnStatus(status, dispatchError) ==
    IF dispatchError THEN [ clear |-> TRUE, settle |-> "DispatchFailed" ]
    ELSE IF status = "dropped" THEN [ clear |-> TRUE, settle |-> "Dropped" ]
    ELSE IF status = "invalid" THEN [ clear |-> TRUE, settle |-> "Invalid" ]
    ELSE IF status = "usurped" THEN [ clear |-> TRUE, settle |-> "Usurped" ]
    ELSE IF status = "finalized" THEN [ clear |-> TRUE, settle |-> "Finalized" ]
    ELSE [ clear |-> FALSE, settle |-> "none" ]

\* Mutant: Finalized resolves without looking at dispatchError
cleanupOnStatusIgnoresError(status, dispatchError) ==
    IF status = "finalized"
    THEN [ clear |-> FALSE, settle |-> "Finalized" ]
    ELSE [ clear |-> FALSE, settle |-> "none" ]

\* Mutant: the promise is resolved as soon as the transaction is in a block
cleanupOnStatusResolvesInBlock(status, dispatchError) ==
    IF status = "inBlock" /\ ~dispatchError
    THEN [ clear |-> FALSE, settle |-> "Finalized" ]
    ELSE IF status = "finalized"
    THEN IF dispatchError
         THEN [ clear |-> FALSE, settle |-> "DispatchFailed" ]
         ELSE [ clear |-> FALSE, settle |-> "Finalized" ]
    ELSE [ clear |-> FALSE, settle |-> "none" ]

\* governance-cleanup.js: the callback given to signAndSend (it has no timer)
cleanupOnStatus(status, dispatchError) ==
    IF status = "finalized"
    THEN IF dispatchError
         THEN [ clear |-> FALSE, settle |-> "DispatchFailed" ]
         ELSE [ clear |-> FALSE, settle |-> "Finalized" ]
    ELSE [ clear |-> FALSE, settle |-> "none" ]

\* Mutant: the delay is taken after the last batch too
delegateAfterAwaitAlwaysDelays(result, idx, n) ==
    IF idx < n THEN "delay" ELSE "verify"

\* Mutant: the catch block rethrows
delegateAfterAwaitRethrows(result, idx, n) ==
    IF result = "Finalized"
    THEN IF idx < n - 1 THEN "delay" ELSE "verify"
    ELSE "fatal"

\* Mutant: a batch that failed is sent again
delegateAfterAwaitRetries(result, idx, n) ==
    IF result /= "Finalized" THEN "loop"
    ELSE IF idx < n - 1 THEN "delay" ELSE "verify"

\* delegate.js: after the await; the catch block logs and the loop goes on
delegateAfterAwait(result, idx, n) ==
    IF idx < n - 1 THEN "delay" ELSE "verify"

\* Mutant: the catch block swallows the error
cleanupAfterAwaitSwallows(result, idx, n) ==
    IF idx < n - 1 THEN "delay" ELSE "complete"

\* governance-cleanup.js: after the await; the catch block logs and rethrows,
\* main().catch then exits with status 1
cleanupAfterAwait(result, idx, n) ==
    IF result = "Finalized"
    THEN IF idx < n - 1 THEN "delay" ELSE "complete"
    ELSE "fatal"

\* The transaction of one batch: api.tx.utility.batchAll(batch.map(c => c.call))
\* inside api.tx.proxy.proxy(account, null, batchCall)
targetAccount == "JKupa"
batchAll(innerCalls) == [ section |-> "utility", method |-> "batchAll", calls |-> innerCalls ]
proxy(real, forceProxyType, call) ==
    [ section |-> "proxy", method |-> "proxy", real |-> real,
      forceProxyType |-> forceProxyType, call |-> call ]

\* Mutant: the operations are wrapped in utility.batch, which is not atomic
proxyCallNotAtomic(account, batch) ==
    proxy(account, "null",
          [ section |-> "utility", method |-> "batch", calls |-> batch ])

proxyCall(account, batch) == proxy(account, "null", batchAll(batch))

\* Answers to the confirmation prompt
Answers == { "yes", "YES", "y", "Y", "no", "" }
\* Mutant: delegate.js takes "y" for "yes" as well
delegateConfirmedAcceptsY(reply) == toLowerCase(reply) = "yes" \/ toLowerCase(reply) = "y"

delegateConfirmed(reply) == toLowerCase(reply) = "yes"

cleanupConfirmed(reply) == ~(toLowerCase(reply) /= "yes" /\ toLowerCase(reply) /= "y")

(***************************************************************************)
(* Inputs                                                                  *)
(***************************************************************************)
\* A prior lock record: (unlock height, amount).  (0, 0) is the empty record.
PriorUniverse ==
    { << 0, 0 >> } \cup
    { << u, a >> : u \in { 0 } \cup BlockUniverse, a \in AmountUniverse \ { 0 } } \cup
    { << u, 0 >> : u \in BlockUniverse }

\* The Voting values of one track: delegating; casting with any votes and
\* no prior lock; casting with no vote or two votes and any prior lock
EntryVotings ==
    { Delegating } \cup
    { Casting(v, << 0, 0 >>) : v \in DistinctSeqs(RefUniverse, Cardinality(RefUniverse)) } \cup
    { Casting(v, p) : v \in { << >>, << 2, 1 >> }, p \in PriorUniverse }

\* votingFor.entries: at most one entry per track, in any order
EntryLists(n, votings) ==
    UNION { { [ k \in 1..Len(ts) |-> [ trackId |-> ts[k], voting |-> vs[k] ] ] :
                vs \in [ 1..Len(ts) -> votings ] } :
            ts \in DistinctSeqs(TrackUniverse, n) }

\* The inputs of the modelled runs: fewer voting values per track
RunVotings ==
    { Delegating, Casting(<< 2, 1 >>, << 1, 5 >>), Casting(<< >>, << 2, 5 >>) }

\* The --track lists of the modelled delegate runs: the first tracks of the table
RunTrackLists == { SubSeq(ALL_TRACKS, 1, n) : n \in 1..MaxRunTracks }

\* The command lines of the modelled runs
ValidArgs == [ enough |-> TRUE, help |-> FALSE, account |-> TRUE, keyMode |-> "keyfile" ]
DelegateArgs ==
    { [ enough |-> e, help |-> h, account |-> TRUE, keyMode |-> "keyfile" ] :
        e \in BOOLEAN, h \in BOOLEAN }
CleanupArgs ==
    { [ enough |-> TRUE, help |-> h, account |-> a, keyMode |-> k ] :
        h \in BOOLEAN, a \in BOOLEAN, k \in { "keyfile", "mnemonic", "none" } }

\* Values of --network: a known name, a known name in upper case, an unknown
\* name, no option at all and, for delegate.js, a name every object inherits.
\* (The run of governance-cleanup.js after an inherited name is not modelled.)
CleanupNetworkArgs == { "absent", "kusama", "polkadot", "KUSAMA", "moonbeam" }
DelegateNetworkArgs == CleanupNetworkArgs \cup { "constructor" }

\* Values of <conviction>: the seven names, a name in the wrong case, a name
\* every object inherits
ConvictionArgs == DOMAIN CONVICTION_MULTIPLIERS \cup { "locked1x", "constructor" }

\* Values of parseFloat(<balance>)
BalanceArgs == { NaN, Num(-1), Num(0), Num(675) }

\* The --track lists of the runs that vary the arguments: none (all tracks),
\* two tracks, the same track twice
ArgTrackLists == { << >>, << 2, 0 >>, << 2, 2 >> }

Idle(n) == [ k \in 1..n |-> "none" ]

InitCommon ==
    /\ network = "undefined"
    /\ lockDays = Num(0)
    /\ balancePlanck = [ units |-> 0, decimals |-> 0 ]
    /\ conn = "none"
    /\ queried = FALSE
    /\ error = "none"
    /\ locals = EmptyInfo
    /\ info = EmptyInfo
    /\ calls = << >>
    /\ answer = "unasked"
    /\ batches = << >>
    /\ pc = "start"
    /\ i = 0
    /\ sub = << >>
    /\ chain = << >>
    /\ failed = << >>
    /\ timer = << >>
    /\ clock = 0
    /\ outcome = << >>
    /\ trace = << >>
    /\ sent = << >>
    /\ exitCode = -1

\* delegate.js with a well-formed command line and the given --track lists
InitDelegateWith(lists) ==
    /\ prog = "delegate"
    /\ args = ValidArgs
    /\ networkArg \in NetworkNames
    /\ conviction = "Locked1x"
    /\ balanceAmount = Num(675)
    /\ delegateTo = "HqRcf"
    /\ keyfileExists = TRUE
    /\ trackIndices \in lists
    /\ votingEntries = << >>
    /\ chainBlock = 0
    /\ unlockOnly = FALSE

\* delegate.js with any of the modelled command lines
InitDelegateArgs ==
    /\ prog = "delegate"
    /\ args \in DelegateArgs
    /\ networkArg \in DelegateNetworkArgs
    /\ conviction \in ConvictionArgs
    /\ balanceAmount \in BalanceArgs
    /\ delegateTo \in { "HqRcf", "1xyz" }
    /\ keyfileExists \in BOOLEAN
    /\ trackIndices \in ArgTrackLists
    /\ votingEntries = << >>
    /\ chainBlock = 0
    /\ unlockOnly = FALSE

\* governance-cleanup.js with a well-formed command line and the given chain state
InitCleanupWith(lists) ==
    /\ prog = "cleanup"
    /\ args = ValidArgs
    /\ networkArg \in NetworkNames
    /\ conviction = "None"
    /\ balanceAmount = Num(0)
    /\ delegateTo = ""
    /\ keyfileExists = TRUE
    /\ trackIndices = << >>
    /\ votingEntries \in lists
    /\ chainBlock \in BlockUniverse
    /\ unlockOnly \in BOOLEAN

\* governance-cleanup.js with any of the modelled command lines
InitCleanupArgs ==
    /\ prog = "cleanup"
    /\ args \in CleanupArgs
    /\ networkArg \in CleanupNetworkArgs
    /\ conviction = "None"
    /\ balanceAmount = Num(0)
    /\ delegateTo = ""
    /\ keyfileExists \in BOOLEAN
    /\ trackIndices = << >>
    /\ votingEntries \in EntryLists(1, RunVotings)
    /\ chainBlock = 2
    /\ unlockOnly \in BOOLEAN

(***************************************************************************)
(* delegate.js main, from the command line to the submission loop          *)
(***************************************************************************)
Running == exitCode = -1

\* How a run of delegate.js ends when main rejects: main().catch(console.error)
\* logs and sets no exit status.  With no connection the process ends with
\* status 0; with a connection left open it ends with status 0 or stays alive.
delegateRejectExits(connection) == IF connection = "none" THEN { 0 } ELSE { 0, -1 }

\* The synchronous start of main: usage, --network, --track, <conviction>,
\* lockDays and balancePlanck
DelegateStart ==
    /\ Running /\ prog = "delegate" /\ pc = "start"
    /\ LET name == delegateNetworkName(networkArg)
       IN  IF ~args.enough \/ args.help
           THEN /\ pc' = "done" /\ exitCode' = 0
                /\ error' = IF args.help THEN "none" ELSE "usage"
                /\ UNCHANGED startVars
           ELSE IF ~isTruthy(NETWORKS, name)
           THEN /\ pc' = "failed" /\ exitCode' = 1 /\ error' = "network"
                /\ UNCHANGED startVars
           ELSE IF ~isTruthy(CONVICTION_MULTIPLIERS, conviction)
           THEN /\ pc' = "failed" /\ exitCode' = 1 /\ error' = "conviction"
                /\ UNCHANGED startVars
           ELSE IF planckThrows(balanceAmount, name)
           THEN /\ pc' = "failed" /\ error' = "range"
                /\ exitCode' \in delegateRejectExits(conn)
                /\ network' = name
                /\ lockDays' = lockDaysOf(conviction, name)
                /\ UNCHANGED balancePlanck
           ELSE /\ pc' = "connect"
                /\ network' = name
                /\ lockDays' = lockDaysOf(conviction, name)
                /\ balancePlanck' = toPlanck(balanceAmount, NETWORKS[name].decimals)
                /\ UNCHANGED << exitCode, error >>
    /\ UNCHANGED << inputVars, locals, sent, answer, conn, queried, info, calls, batches, i, monitorVars, trace >>

\* api = await ApiPromise.create({ provider })
DelegateConnect ==
    /\ Running /\ prog = "delegate" /\ pc = "connect"
    /\ \E ok \in BOOLEAN :
        IF ok
        THEN /\ conn' = "open" /\ pc' = "check"
             /\ UNCHANGED << error, exitCode >>
        ELSE /\ conn' = "failed" /\ pc' = "failed" /\ error' = "connect"
             /\ exitCode' \in delegateRejectExits("failed")
    /\ UNCHANGED << inputVars, locals, sent, answer, startVars, queried, info, calls, batches, i, monitorVars, trace >>

\* The account, the staking ledger and the current delegations are queried
DelegateCheckState ==
    /\ Running /\ prog = "delegate" /\ pc = "check"
    /\ queried' = TRUE
    /\ \E ok \in BOOLEAN :
        IF ok
        THEN pc' = "keyfile" /\ UNCHANGED << error, exitCode >>
        ELSE /\ pc' = "failed" /\ error' = "query"
             /\ exitCode' \in delegateRejectExits(conn)
    /\ UNCHANGED << inputVars, locals, sent, answer, startVars, conn, info, calls, batches, i, monitorVars, trace >>

\* if (!fs.existsSync(keyfile)) process.exit(1); the proxy key pair is loaded
DelegateLoadProxy ==
    /\ Running /\ prog = "delegate" /\ pc = "keyfile"
    /\ IF keyfileExists
       THEN pc' = "build" /\ UNCHANGED << error, exitCode >>
       ELSE pc' = "failed" /\ error' = "keyfile" /\ exitCode' = 1
    /\ UNCHANGED << inputVars, locals, sent, answer, startVars, conn, queried, info, calls, batches, i, monitorVars,
                    trace >>

\* calls = tracks.map(...); with --dry-run the encoded call is shown and
\* main returns after api.disconnect()
DelegateBuild ==
    /\ Running /\ prog = "delegate" /\ pc = "build"
    /\ \E enc \in encodeOutcomes(conviction, balancePlanck) :
        IF enc = "throws"
        THEN /\ pc' = "failed" /\ error' = "encode"
             /\ exitCode' \in delegateRejectExits(conn)
             /\ UNCHANGED << calls, conn >>
        ELSE /\ calls' = delegateCalls(parseTracks(trackIndices), delegateTo, conviction,
                                       balancePlanck)
             /\ IF dryRun
                THEN pc' = "done" /\ exitCode' = 0 /\ conn' = "closed"
                ELSE pc' = "confirm" /\ UNCHANGED << exitCode, conn >>
             /\ UNCHANGED error
    /\ UNCHANGED << inputVars, locals, sent, answer, startVars, queried, info, batches, i, monitorVars, trace >>

\* The prompt; on "yes" the calls are split into batches and the loop starts;
\* on any other answer "Aborted.", api.disconnect() and main returns
DelegateConfirm ==
    /\ Running /\ prog = "delegate" /\ pc = "confirm"
    /\ \E typed \in Answers :
        /\ answer' = typed
        /\ IF delegateConfirmed(typed)
           THEN LET bs == splitBatches(calls, NETWORKS[network].maxTracksPerBatch)
                    n == Len(bs)
                IN  /\ batches' = bs
                    /\ i' = 0
                    /\ sub' = Idle(n)
                    /\ chain' = Idle(n)
                    /\ failed' = [ k \in 1..n |-> FALSE ]
                    /\ timer' = Idle(n)
                    /\ outcome' = Idle(n)
                    /\ pc' = IF n > 0 THEN "loop" ELSE "verify"
                    /\ UNCHANGED << exitCode, clock, conn >>
           ELSE /\ pc' = "done" /\ exitCode' = 0 /\ conn' = "closed"
                /\ UNCHANGED << batches, i, monitorVars >>
    /\ UNCHANGED << inputVars, locals, sent, startVars, queried, error, info, calls, trace >>

(***************************************************************************)
(* governance-cleanup.js main, from the command line to submitBatchViaProxy*)
(***************************************************************************)
\* parseArgs and the three checks at the start of main
CleanupStart ==
    /\ Running /\ prog = "cleanup" /\ pc = "start"
    /\ LET name == cleanupNetworkName(networkArg)
       IN  IF args.help
           THEN pc' = "done" /\ exitCode' = 0 /\ UNCHANGED << error, network >>
           ELSE IF name = "undefined" \/ ~isTruthy(CLEANUP_NETWORKS, name)
           THEN pc' = "failed" /\ exitCode' = 1 /\ error' = "network" /\ UNCHANGED network
           ELSE IF ~args.account
           THEN pc' = "failed" /\ exitCode' = 1 /\ error' = "account" /\ UNCHANGED network
           ELSE IF args.keyMode = "none"
           THEN pc' = "failed" /\ exitCode' = 1 /\ error' = "nokey" /\ UNCHANGED network
           ELSE pc' = "mnemonic" /\ network' = name /\ UNCHANGED << error, exitCode >>
    /\ UNCHANGED << inputVars, locals, sent, answer, lockDays, balancePlanck, conn, queried, info, calls, batches, i,
                    monitorVars, trace >>

\* getMnemonic: a missing keyfile throws, main().catch exits with status 1
CleanupLoadProxy ==
    /\ Running /\ prog = "cleanup" /\ pc = "mnemonic"
    /\ IF args.keyMode = "keyfile" /\ ~keyfileExists
       THEN pc' = "failed" /\ error' = "keyfile" /\ exitCode' = 1
       ELSE pc' = "connect" /\ UNCHANGED << error, exitCode >>
    /\ UNCHANGED << inputVars, locals, sent, answer, startVars, conn, queried, info, calls, batches, i, monitorVars,
                    trace >>

\* api = await ApiPromise.create({ provider })
CleanupConnect ==
    /\ Running /\ prog = "cleanup" /\ pc = "connect"
    /\ \E ok \in BOOLEAN :
        IF ok
        THEN /\ conn' = "open" /\ pc' = "query"
             /\ UNCHANGED << error, exitCode >>
        ELSE /\ conn' = "failed" /\ pc' = "failed" /\ error' = "connect" /\ exitCode' = 1
    /\ UNCHANGED << inputVars, locals, sent, answer, startVars, queried, info, calls, batches, i, monitorVars, trace >>

\* getVotingInfo, first query: votingFor.entries(account).  A failed query
\* throws out of getVotingInfo and of main; main().catch exits with status 1
CleanupQuery ==
    /\ Running /\ prog = "cleanup" /\ pc = "query"
    /\ queried' = TRUE
    /\ \E ok \in BOOLEAN :
        IF ok
        THEN pc' = "header" /\ UNCHANGED << error, exitCode >>
        ELSE pc' = "failed" /\ error' = "query" /\ exitCode' = 1
    /\ UNCHANGED << inputVars, locals, sent, answer, startVars, conn, info, calls, batches, i,
                    monitorVars, trace >>

\* getVotingInfo, second query: currentBlock = getHeader().number, and the
\* loop over the entries, which runs without suspending
CleanupGetHeader ==
    /\ Running /\ prog = "cleanup" /\ pc = "header"
    /\ \E ok \in BOOLEAN :
        IF ok
        THEN /\ locals' = getVotingInfo(votingEntries, chainBlock)
             /\ pc' = "classLocks"
             /\ UNCHANGED << error, exitCode >>
        ELSE /\ pc' = "failed" /\ error' = "query" /\ exitCode' = 1
             /\ UNCHANGED locals
    /\ UNCHANGED << inputVars, sent, answer, startVars, conn, queried, info, calls, batches, i,
                    monitorVars, trace >>

\* Mutant: a failed classLocksFor query is swallowed and the entries read so
\* far are returned
CleanupClassLocksReturnsPartial ==
    /\ Running /\ prog = "cleanup" /\ pc = "classLocks"
    /\ \E ok \in BOOLEAN :
        /\ info' = locals
        /\ pc' = "build"
        /\ error' = IF ok THEN error ELSE "query"
        /\ UNCHANGED exitCode
    /\ UNCHANGED << inputVars, locals, sent, answer, startVars, conn, queried, calls, batches, i,
                    monitorVars, trace >>

\* getVotingInfo, third query: classLocksFor(account), then the return; main
\* destructures the returned object
CleanupClassLocks ==
    /\ Running /\ prog = "cleanup" /\ pc = "classLocks"
    /\ \E ok \in BOOLEAN :
        IF ok
        THEN /\ info' = locals
             /\ pc' = "build"
             /\ UNCHANGED << error, exitCode >>
        ELSE /\ pc' = "failed" /\ error' = "query" /\ exitCode' = 1
             /\ UNCHANGED info
    /\ UNCHANGED << inputVars, locals, sent, answer, startVars, conn, queried, calls, batches, i,
                    monitorVars, trace >>

\* A new block arrives: the chain's height grows
NewBlock ==
    /\ Running /\ prog = "cleanup" /\ conn = "open"
    /\ chainBlock < MaxHeight
    /\ chainBlock' = chainBlock + 1
    /\ UNCHANGED << prog, args, networkArg, conviction, balanceAmount, delegateTo,
                    keyfileExists, dryRun, trackIndices, votingEntries, unlockOnly,
                    locals, sent, answer, startVars, conn, queried, error, info, calls,
                    batches, pc, i, monitorVars, trace, exitCode >>

\* Mutant: an empty plan goes on to the prompt and to submitBatchViaProxy
CleanupBuildNoEmptyCheck ==
    /\ Running /\ prog = "cleanup" /\ pc = "build"
    /\ calls' = buildCleanupCalls(info.delegations, info.votes, info.priorLocks, unlockOnly)
    /\ pc' = (IF dryRun THEN "submit" ELSE "confirm")
    /\ UNCHANGED << inputVars, locals, sent, answer, startVars, conn, queried, error, info,
                    batches, i, monitorVars, trace, exitCode >>

\* calls = buildCleanupCalls(...); an empty plan is "Nothing to do!"
CleanupBuild ==
    /\ Running /\ prog = "cleanup" /\ pc = "build"
    /\ LET cs == buildCleanupCalls(info.delegations, info.votes, info.priorLocks, unlockOnly)
       IN  /\ calls' = cs
           /\ IF Len(cs) = 0
              THEN pc' = "done" /\ exitCode' = 0 /\ conn' = "closed"
              ELSE /\ pc' = (IF dryRun THEN "submit" ELSE "confirm")
                   /\ UNCHANGED << exitCode, conn >>
    /\ UNCHANGED << inputVars, locals, sent, answer, startVars, queried, error, info, batches, i, monitorVars, trace >>

\* if (!config.dryRun) the prompt; on an answer other than "yes" and "y"
\* "Aborted.", api.disconnect() and main returns
CleanupConfirm ==
    /\ Running /\ prog = "cleanup" /\ pc = "confirm"
    /\ \E typed \in Answers :
        /\ answer' = typed
        /\ IF cleanupConfirmed(typed)
           THEN pc' = "submit" /\ UNCHANGED << exitCode, conn >>
           ELSE pc' = "done" /\ exitCode' = 0 /\ conn' = "closed"
    /\ UNCHANGED << inputVars, locals, sent, startVars, queried, error, info, calls, batches, i, monitorVars,
                    trace >>

\* submitBatchViaProxy: batches = chunkArray(calls, maxCallsPerBatch)
CleanupEnterSubmit ==
    /\ Running /\ prog = "cleanup" /\ pc = "submit"
    /\ LET bs == chunkArray(calls, CLEANUP_NETWORKS[network].maxTracksPerBatch)
           n == Len(bs)
       IN  /\ batches' = bs
           /\ i' = 0
           /\ sub' = Idle(n)
           /\ chain' = Idle(n)
           /\ failed' = [ k \in 1..n |-> FALSE ]
           /\ timer' = Idle(n)
           /\ outcome' = Idle(n)
           /\ pc' = IF n > 0 THEN "loop" ELSE "complete"
    /\ UNCHANGED << inputVars, locals, sent, answer, startVars, conn, queried, error, info, calls, clock, trace,
                    exitCode >>

(***************************************************************************)
(* The submission loops                                                    *)
(***************************************************************************)
Batch(k) == k \in 1..Len(batches)

\* The awaited promise has settled: the await returns or throws, and the
\* loop body runs on to its next suspension point
Continue(k, result) ==
    LET next == IF prog = "delegate"
                THEN delegateAfterAwait(result, i, Len(batches))
                ELSE cleanupAfterAwait(result, i, Len(batches))
    IN  /\ pc' = next
        /\ trace' = Append(trace, << "settled", k, result >>)
        /\ exitCode' = IF next = "fatal" THEN 1 ELSE exitCode

\* resolve / reject called on the promise of batch k
Settle(k, result) ==
    LET now == settlePromise(outcome[k], result)
    IN  /\ outcome' = [ outcome EXCEPT ![k] = now ]
        /\ IF outcome[k] = "pending" /\ now /= "pending"
           THEN Continue(k, now)
           ELSE UNCHANGED << pc, trace, exitCode >>

\* Mutant: proxyCall.signAndSend(...) is called and no timer is set
DelegateSendNoTimer ==
    /\ Running /\ prog = "delegate" /\ pc = "loop" /\ i < Len(batches)
    /\ sub' = [ sub EXCEPT ![i + 1] = "pending" ]
    /\ outcome' = [ outcome EXCEPT ![i + 1] = "pending" ]
    /\ trace' = Append(trace, << "send", i + 1 >>)
    /\ sent' = Append(sent, proxyCall(targetAccount, batches[i + 1]))
    /\ pc' = "await"
    /\ UNCHANGED << inputVars, locals, answer, startVars, conn, queried, error, info, calls, batches, i, chain, failed, timer,
                    clock, exitCode >>

\* delegate.js: the timer is set, then proxyCall.signAndSend(...) is called
DelegateSend ==
    /\ Running /\ prog = "delegate" /\ pc = "loop" /\ i < Len(batches)
    /\ timer' = [ timer EXCEPT ![i + 1] = "armed" ]
    /\ clock' = TimeoutTicks
    /\ sub' = [ sub EXCEPT ![i + 1] = "pending" ]
    /\ outcome' = [ outcome EXCEPT ![i + 1] = "pending" ]
    /\ trace' = Append(trace, << "send", i + 1 >>)
    /\ sent' = Append(sent, proxyCall(targetAccount, batches[i + 1]))
    /\ pc' = "await"
    /\ UNCHANGED << inputVars, locals, answer, startVars, conn, queried, error, info, calls, batches, i, chain, failed, exitCode >>

\* governance-cleanup.js: if (dryRun) { log; continue }
CleanupDryBatch ==
    /\ Running /\ prog = "cleanup" /\ pc = "loop" /\ i < Len(batches) /\ dryRun
    /\ i' = i + 1
    /\ pc' = IF i + 1 < Len(batches) THEN "loop" ELSE "complete"
    /\ trace' = Append(trace, << "dry", i + 1 >>)
    /\ UNCHANGED << inputVars, locals, sent, answer, startVars, conn, queried, error, info, calls, batches, monitorVars, exitCode >>

\* Mutant: the batch is signed and sent without looking at dryRun
CleanupSendInDryRun ==
    /\ Running /\ prog = "cleanup" /\ pc = "loop" /\ i < Len(batches)
    /\ sub' = [ sub EXCEPT ![i + 1] = "pending" ]
    /\ outcome' = [ outcome EXCEPT ![i + 1] = "pending" ]
    /\ trace' = Append(trace, << "send", i + 1 >>)
    /\ sent' = Append(sent, proxyCall(targetAccount, batches[i + 1]))
    /\ pc' = "await"
    /\ UNCHANGED << inputVars, locals, answer, startVars, conn, queried, error, info, calls, batches, i, chain,
                    failed, timer, clock, exitCode >>

\* governance-cleanup.js: proxyCall.signAndSend(...) inside new Promise
CleanupSend ==
    /\ Running /\ prog = "cleanup" /\ pc = "loop" /\ i < Len(batches) /\ ~dryRun
    /\ sub' = [ sub EXCEPT ![i + 1] = "pending" ]
    /\ outcome' = [ outcome EXCEPT ![i + 1] = "pending" ]
    /\ trace' = Append(trace, << "send", i + 1 >>)
    /\ sent' = Append(sent, proxyCall(targetAccount, batches[i + 1]))
    /\ pc' = "await"
    /\ UNCHANGED << inputVars, locals, answer, startVars, conn, queried, error, info, calls, batches, i, chain, failed, timer, clock, exitCode >>

\* The promise signAndSend returned resolves: the transaction is in the
\* pool, the subscription delivers statuses, delegate.js stores unsub
SubscribeOk(k) ==
    /\ Running /\ Batch(k) /\ sub[k] = "pending"
    /\ sub' = [ sub EXCEPT ![k] = "live" ]
    /\ chain' = [ chain EXCEPT ![k] = "ready" ]
    /\ UNCHANGED << inputVars, locals, sent, answer, startVars, conn, queried, error, info, calls, batches, pc, i, failed, timer, clock, outcome,
                    trace, exitCode >>

\* delegate.js: the promise signAndSend returned rejects:
\* .catch(err => { clearTimeout(timeout); reject(err) })
DelegateSendRejected(k) ==
    /\ Running /\ prog = "delegate" /\ Batch(k) /\ sub[k] = "pending"
    /\ sub' = [ sub EXCEPT ![k] = "failed" ]
    /\ timer' = [ timer EXCEPT ![k] = clearTimeout(@) ]
    /\ Settle(k, "SendError")
    /\ UNCHANGED << inputVars, locals, sent, answer, startVars, conn, queried, error, info, calls, batches, i, chain, failed, clock >>

\* governance-cleanup.js: the promise signAndSend returned rejects and nothing
\* handles it.  Depending on the runtime's unhandled-rejection mode the
\* process dies with status 1 or only warns; the awaited promise stays pending.
CleanupSendRejected(k) ==
    /\ Running /\ prog = "cleanup" /\ Batch(k) /\ sub[k] = "pending"
    /\ sub' = [ sub EXCEPT ![k] = "failed" ]
    /\ \E dies \in BOOLEAN :
        IF dies
        THEN pc' = "crashed" /\ exitCode' = 1
        ELSE UNCHANGED << pc, exitCode >>
    /\ UNCHANGED << inputVars, locals, sent, answer, startVars, conn, queried, error, info, calls, batches, i, chain, failed, timer, clock, outcome,
                    trace >>

\* The subscription of batch k delivers a status to its callback
Deliver(k, status, dispatchError) ==
    IF sub[k] = "live"
    THEN LET cb == IF prog = "delegate"
                   THEN delegateOnStatus(status, dispatchError)
                   ELSE cleanupOnStatus(status, dispatchError)
         IN  /\ timer' = IF cb.clear THEN [ timer EXCEPT ![k] = clearTimeout(@) ] ELSE timer
             /\ Settle(k, cb.settle)
    ELSE UNCHANGED << timer, outcome, pc, trace, exitCode >>

\* The chain includes the transaction in a block; the extrinsic succeeds or fails
ChainInBlock(k) ==
    /\ Running /\ Batch(k) /\ chain[k] = "ready"
    /\ \E fails \in BOOLEAN :
        /\ failed' = [ failed EXCEPT ![k] = fails ]
        /\ Deliver(k, "inBlock", fails)
    /\ chain' = [ chain EXCEPT ![k] = "inBlock" ]
    /\ UNCHANGED << inputVars, locals, sent, answer, startVars, conn, queried, error, info, calls, batches, i, sub, clock >>

\* The block holding the transaction is finalized
ChainFinalized(k) ==
    /\ Running /\ Batch(k) /\ chain[k] = "inBlock"
    /\ chain' = [ chain EXCEPT ![k] = "finalized" ]
    /\ Deliver(k, "finalized", failed[k])
    /\ UNCHANGED << inputVars, locals, sent, answer, startVars, conn, queried, error, info, calls, batches, i, sub, failed, clock >>

\* The pool drops the transaction, finds it invalid, or replaces it
ChainRejected(k) ==
    /\ Running /\ Batch(k) /\ chain[k] = "ready"
    /\ \E status \in { "dropped", "invalid", "usurped" } :
        /\ chain' = [ chain EXCEPT ![k] = status ]
        /\ Deliver(k, status, FALSE)
    /\ UNCHANGED << inputVars, locals, sent, answer, startVars, conn, queried, error, info, calls, batches, i, sub, failed, clock >>

\* Time passes while a deadline timer is armed
Tick ==
    /\ Running /\ clock > 0
    /\ \E k \in 1..Len(timer) : timer[k] = "armed"
    /\ clock' = clock - 1
    /\ UNCHANGED << inputVars, locals, sent, answer, startVars, conn, queried, error, info, calls, batches, pc, i, sub, chain, failed, timer,
                    outcome, trace, exitCode >>

\* delegate.js: the deadline timer fires:
\* if (unsub) unsub(); reject(new Error('Transaction timeout ...'))
TimerFire(k) ==
    /\ Running /\ Batch(k) /\ timer[k] = "armed" /\ clock = 0
    /\ timer' = [ timer EXCEPT ![k] = "fired" ]
    /\ sub' = [ sub EXCEPT ![k] = IF @ = "live" THEN "closed" ELSE @ ]
    /\ Settle(k, "TimedOut")
    /\ UNCHANGED << inputVars, locals, sent, answer, startVars, conn, queried, error, info, calls, batches, i, chain, failed, clock >>

\* if (i < batches.length - 1) await setTimeout(6000); then i++
DelayElapsed ==
    /\ Running /\ pc = "delay"
    /\ i' = i + 1
    /\ pc' = "loop"
    /\ trace' = Append(trace, << "delay", i + 1 >>)
    /\ UNCHANGED << inputVars, locals, sent, answer, startVars, conn, queried, error, info, calls, batches, monitorVars, exitCode >>

\* delegate.js: the final state is queried, api.disconnect(), "Done!"
DelegateVerify ==
    /\ Running /\ prog = "delegate" /\ pc = "verify"
    /\ \E ok \in BOOLEAN :
        IF ok
        THEN /\ pc' = "done" /\ exitCode' = 0 /\ conn' = "closed"
             /\ UNCHANGED error
        ELSE /\ pc' = "failed" /\ error' = "verify"
             /\ exitCode' \in delegateRejectExits(conn)
             /\ UNCHANGED conn
    /\ UNCHANGED << inputVars, locals, sent, answer, startVars, queried, info, calls, batches, i, monitorVars, trace >>

\* governance-cleanup.js: "Complete!", api.disconnect()
CleanupComplete ==
    /\ Running /\ prog = "cleanup" /\ pc = "complete"
    /\ pc' = "done"
    /\ exitCode' = 0
    /\ conn' = "closed"
    /\ UNCHANGED << inputVars, locals, sent, answer, startVars, queried, error, info, calls, batches, i, monitorVars,
                    trace >>

(***************************************************************************)
(* Specifications                                                          *)
(***************************************************************************)
\* The start of main, planning and splitting, for every bounded input: both
\* programs run up to the point where the batches exist; nothing is submitted
Init ==
    /\ InitCommon
    /\ dryRun = FALSE
    /\ \/ InitDelegateWith(BoundedSeqs(TrackUniverse, MaxUserTracks))
       \/ InitDelegateArgs
       \/ InitCleanupWith(EntryLists(MaxEntries, EntryVotings))
       \/ InitCleanupArgs

Next ==
    \/ DelegateStart
    \/ DelegateConnect
    \/ DelegateCheckState
    \/ DelegateLoadProxy
    \/ DelegateBuild
    \/ DelegateConfirm
    \/ CleanupStart
    \/ CleanupLoadProxy
    \/ CleanupConnect
    \/ CleanupQuery
    \/ CleanupGetHeader
    \/ CleanupClassLocks
    \/ CleanupBuild
    \/ CleanupConfirm
    \/ CleanupEnterSubmit

Spec == Init /\ [][Next]_vars

\* Runs of delegate.js and of governance-cleanup.js through their submission
\* loops, with the chain and the timers acting in any order
InitRun ==
    /\ InitCommon
    /\ dryRun \in BOOLEAN
    /\ \/ InitDelegateWith(RunTrackLists)
       \/ InitCleanupWith(EntryLists(MaxRunEntries, RunVotings))

NextRun ==
    \/ DelegateStart
    \/ DelegateConnect
    \/ DelegateCheckState
    \/ DelegateLoadProxy
    \/ DelegateBuild
    \/ DelegateConfirm
    \/ DelegateSend
    \/ CleanupStart
    \/ CleanupLoadProxy
    \/ CleanupConnect
    \/ CleanupQuery
    \/ CleanupGetHeader
    \/ CleanupClassLocks
    \/ CleanupBuild
    \/ CleanupConfirm
    \/ CleanupEnterSubmit
    \/ CleanupDryBatch
    \/ CleanupSend
    \/ \E k \in 1..Len(batches) : SubscribeOk(k)
    \/ \E k \in 1..Len(batches) : DelegateSendRejected(k)
    \/ \E k \in 1..Len(batches) : CleanupSendRejected(k)
    \/ \E k \in 1..Len(batches) : ChainInBlock(k)
    \/ \E k \in 1..Len(batches) : ChainFinalized(k)
    \/ \E k \in 1..Len(batches) : ChainRejected(k)
    \/ Tick
    \/ \E k \in 1..Len(batches) : TimerFire(k)
    \/ DelayElapsed
    \/ DelegateVerify
    \/ CleanupComplete

SpecRun == InitRun /\ [][NextRun]_vars

\* governance-cleanup.js up to its submission loop, with blocks arriving
\* while the program reads and plans
InitRead ==
    /\ InitCommon
    /\ dryRun = FALSE
    /\ InitCleanupWith(EntryLists(MaxRunEntries, RunVotings))

NextRead ==
    \/ CleanupStart
    \/ CleanupLoadProxy
    \/ CleanupConnect
    \/ CleanupQuery
    \/ CleanupGetHeader
    \/ CleanupClassLocks
    \/ CleanupBuild
    \/ CleanupConfirm
    \/ CleanupEnterSubmit
    \/ NewBlock

SpecRead == InitRead /\ [][NextRead]_vars

\* Runs of delegate.js through its submission loop.  The event loop runs a
\* continuation that is ready and fires a timer that is due: the loop's own
\* steps, the passing of time and the deadline timer are weakly fair.  The
\* chain owes nothing: its notifications have no fairness.
LiveTrackLists == { SubSeq(ALL_TRACKS, 1, n) : n \in 1..MaxLiveTracks }

InitLive ==
    /\ InitCommon
    /\ dryRun = FALSE
    /\ InitDelegateWith(LiveTrackLists)

NextLive ==
    \/ DelegateStart
    \/ DelegateConnect
    \/ DelegateCheckState
    \/ DelegateLoadProxy
    \/ DelegateBuild
    \/ DelegateConfirm
    \/ DelegateSend
    \/ \E k \in 1..Len(batches) : SubscribeOk(k)
    \/ \E k \in 1..Len(batches) : DelegateSendRejected(k)
    \/ \E k \in 1..Len(batches) : ChainInBlock(k)
    \/ \E k \in 1..Len(batches) : ChainFinalized(k)
    \/ \E k \in 1..Len(batches) : ChainRejected(k)
    \/ Tick
    \/ \E k \in 1..Len(batches) : TimerFire(k)
    \/ DelayElapsed
    \/ DelegateVerify

Fairness ==
    /\ WF_vars(DelegateSend)
    /\ WF_vars(Tick)
    /\ WF_vars(\E k \in 1..Len(batches) : TimerFire(k))
    /\ WF_vars(DelayElapsed)

SpecLive == InitLive /\ [][NextLive]_vars /\ Fairness

(***************************************************************************)
(* Properties of the plan and of its batches                               *)
(***************************************************************************)
CeilDiv(n, m) == (n + m - 1) \div m

\* The batch limit of the run's network (1 while no network is settled)
BatchLimit ==
    IF network \notin NetworkNames THEN 1
    ELSE IF prog = "delegate"
    THEN NETWORKS[network].maxTracksPerBatch
    ELSE CLEANUP_NETWORKS[network].maxTracksPerBatch

\* The plan has been split into batches
SplitDone ==
    \/ pc \in { "loop", "await", "delay", "verify", "complete", "fatal", "crashed" }
    \/ pc = "done" /\ Len(batches) > 0

\* The cleanup plan has been built
CleanupPlanBuilt ==
    /\ prog = "cleanup"
    /\ pc \notin { "start", "mnemonic", "connect", "query", "header", "classLocks", "build",
                    "failed" }
    /\ pc = "done" => queried

Kind(op) == op[1]
Track(op) == op[2]
Ref(op) == op[3]
OfKind(kind) == SelectSeq(calls, LAMBDA op : Kind(op) = kind)

\* C1: splitting a plan of N operations with batch limit M (4 on both
\* networks) gives exactly ceil(N/M) batches, each non-empty and of at most
\* M operations, whose concatenation in order is the plan; the empty plan
\* gives no batch and 16 operations give 4 batches of 4.  Both the cleanup
\* chunker and the delegate splitter.
C1_SplitIsExactPartition ==
    /\ chunkArray(<< >>, BatchLimit) = << >>
    /\ splitBatches(<< >>, BatchLimit) = << >>
    /\ SplitDone =>
        /\ BatchLimit = 4
        /\ Len(batches) = CeilDiv(Len(calls), BatchLimit)
        /\ \A k \in 1..Len(batches) : Len(batches[k]) \in 1..BatchLimit
        /\ Flatten(batches) = calls
        /\ Len(calls) = 16 =>
            Len(batches) = 4 /\ \A k \in 1..Len(batches) : Len(batches[k]) = 4

C1_Witness ==
    /\ prog = "cleanup" /\ pc = "loop"
    /\ Len(calls) = 6 /\ Len(batches) = 2
    /\ Len(batches[1]) = 4 /\ Len(batches[2]) = 2

GroupRank(op) ==
    IF Kind(op) = "Undelegate" THEN 1
    ELSE IF Kind(op) = "RemoveVote" THEN 2
    ELSE IF Kind(op) = "Unlock" THEN 3
    ELSE 0

\* C8: in a cleanup plan built with unlockOnly = false every Undelegate comes
\* before every RemoveVote, and every RemoveVote before every Unlock.
C8_GroupsInFixedOrder ==
    (CleanupPlanBuilt /\ ~unlockOnly) =>
        \A a, b \in 1..Len(calls) :
            a < b => /\ GroupRank(calls[a]) \in 1..3
                     /\ GroupRank(calls[a]) <= GroupRank(calls[b])

C8_Witness ==
    /\ CleanupPlanBuilt /\ ~unlockOnly
    /\ Len(calls) = 4
    /\ Kind(calls[1]) = "Undelegate"
    /\ Kind(calls[2]) = "RemoveVote"
    /\ Kind(calls[3]) = "RemoveVote"
    /\ Kind(calls[4]) = "Unlock"

\* A group is sorted: ascending by track id, then by referendum index
SortedByTrack(ops) ==
    \A a, b \in 1..Len(ops) : a < b => Track(ops[a]) < Track(ops[b])

SortedByTrackThenRef(ops) ==
    \A a, b \in 1..Len(ops) :
        a < b => \/ Track(ops[a]) < Track(ops[b])
                 \/ Track(ops[a]) = Track(ops[b]) /\ Ref(ops[a]) < Ref(ops[b])

GroupsSorted ==
    /\ SortedByTrack(OfKind("Undelegate"))
    /\ SortedByTrackThenRef(OfKind("RemoveVote"))
    /\ SortedByTrack(OfKind("Unlock"))

EntryPos(trackId) == CHOOSE k \in 1..Len(votingEntries) : votingEntries[k].trackId = trackId
VotePos(trackId, ref) ==
    LET votes == votingEntries[EntryPos(trackId)].voting.votes
    IN  CHOOSE j \in 1..Len(votes) : votes[j] = ref

InChainOrder(ops) ==
    \A a, b \in 1..Len(ops) : a < b => EntryPos(Track(ops[a])) < EntryPos(Track(ops[b]))

InChainOrderThenVoteOrder(ops) ==
    \A a, b \in 1..Len(ops) :
        a < b => \/ EntryPos(Track(ops[a])) < EntryPos(Track(ops[b]))
                 \/ /\ Track(ops[a]) = Track(ops[b])
                    /\ VotePos(Track(ops[a]), Ref(ops[a])) < VotePos(Track(ops[b]), Ref(ops[b]))

ChainOrderIsSorted ==
    /\ \A a, b \in 1..Len(votingEntries) :
          a < b => votingEntries[a].trackId < votingEntries[b].trackId
    /\ \A k \in 1..Len(votingEntries) :
          \A a, b \in 1..Len(votingEntries[k].voting.votes) :
              a < b => votingEntries[k].voting.votes[a] < votingEntries[k].voting.votes[b]

C10_UnlockOnlyPlanOnlyUnlocks ==
    (CleanupPlanBuilt /\ unlockOnly) =>
        \A a \in 1..Len(calls) : Kind(calls[a]) = "Unlock"

C10_Witness ==
    /\ CleanupPlanBuilt /\ unlockOnly
    /\ Len(info.delegations) > 0
    /\ Len(info.votes) > 0
    /\ Len(calls) > 0

\* The entries the chain returned that hold a recorded prior lock: Casting,
\* with a nonzero unlock height and a nonzero amount
RecordedLocks ==
    { k \in 1..Len(votingEntries) :
        /\ isCasting(votingEntries[k].voting)
        /\ votingEntries[k].voting.prior[1] /= 0
        /\ votingEntries[k].voting.prior[2] /= 0 }

\* The tracks whose recorded prior lock has been reached by the current block
ExpiredTracks ==
    { votingEntries[k].trackId :
        k \in { r \in RecordedLocks : chainBlock >= votingEntries[r].voting.prior[1] } }

UnlockedTracks == { Track(OfKind("Unlock")[a]) : a \in 1..Len(OfKind("Unlock")) }

\* C11: with or without unlockOnly, the Unlock operations of a cleanup plan
\* are exactly one per track that is Casting with a prior record whose unlock
\* height and amount are nonzero and with currentBlock >= unlockBlock; a track
\* with a pending lock, without a recorded lock, or Delegating contributes no
\* Unlock, and no track contributes two.
C11_UnlockExactlyExpiredLocks ==
    CleanupPlanBuilt =>
        /\ UnlockedTracks = ExpiredTracks
        /\ Len(OfKind("Unlock")) = Cardinality(ExpiredTracks)

C11_Witness ==
    /\ CleanupPlanBuilt /\ unlockOnly
    /\ Len(votingEntries) = 2
    /\ Cardinality(RecordedLocks) = 2
    /\ Cardinality(ExpiredTracks) = 1
    /\ Len(OfKind("Unlock")) = 1

\* The record getVotingInfo made for the lock of entry k
LockRecordOf(k) ==
    LET hits == { a \in 1..Len(info.priorLocks) :
                    info.priorLocks[a].trackId = votingEntries[k].trackId }
    IN  info.priorLocks[CHOOSE a \in hits : TRUE]

VotingInfoRead ==
    /\ prog = "cleanup" /\ queried /\ error /= "query"
    /\ pc \notin { "header", "classLocks" }

\* C12: a recorded prior lock is classified Expired if and only if
\* currentBlock >= unlockBlock (currentBlock = unlockBlock is Expired);
\* otherwise it is Pending with blocksRemaining = unlockBlock - currentBlock > 0;
\* an Expired lock has blocksRemaining 0.
C12_ExpiredIffBlockReached ==
    VotingInfoRead =>
        /\ Len(info.priorLocks) = Cardinality(RecordedLocks)
        /\ \A k \in RecordedLocks :
              LET unlockBlock == votingEntries[k].voting.prior[1]
                  lock == LockRecordOf(k)
              IN  /\ lock.unlockBlock = unlockBlock
                  /\ lock.isExpired <=> chainBlock >= unlockBlock
                  /\ lock.isExpired => lock.blocksRemaining = 0
                  /\ ~lock.isExpired =>
                        /\ lock.blocksRemaining = unlockBlock - chainBlock
                        /\ lock.blocksRemaining > 0

C12_Witness ==
    /\ VotingInfoRead
    /\ Len(info.priorLocks) = 2
    /\ info.priorLocks[1].unlockBlock = chainBlock
    /\ info.priorLocks[1].isExpired
    /\ ~info.priorLocks[2].isExpired
    /\ info.priorLocks[2].blocksRemaining = 1

\* The delegate plan has been built
DelegatePlanBuilt ==
    /\ prog = "delegate"
    /\ \/ pc \in { "confirm", "loop", "await", "delay", "verify" }
       \/ pc = "done" /\ queried
       \/ pc = "failed" /\ error = "verify"

\* The tracks the command line asks for
RequestedTracks ==
    IF trackIndices = << >>
    THEN << 0, 1, 2, 10, 11, 12, 13, 14, 15, 20, 21, 30, 31, 32, 33, 34 >>
    ELSE trackIndices

\* C14: the delegate plan holds exactly one Delegate operation per requested
\* track, in the order the tracks were given (the full set of 16 tracks when
\* none is requested), and every operation carries the same target,
\* conviction and balance: those of the command line.
C14_OneDelegatePerRequestedTrack ==
    DelegatePlanBuilt =>
        /\ Len(calls) = Len(RequestedTracks)
        /\ \A k \in 1..Len(calls) :
              /\ Kind(calls[k]) = "Delegate"
              /\ Track(calls[k]) = RequestedTracks[k]
              /\ calls[k][3] = delegateTo
              /\ calls[k][4] = conviction
              /\ calls[k][5] = [ units |-> balanceAmount.value,
                                 decimals |-> IF network = "kusama" THEN 12 ELSE 10 ]
        /\ \A a, b \in 1..Len(calls) :
              /\ calls[a][3] = calls[b][3]
              /\ calls[a][4] = calls[b][4]
              /\ calls[a][5] = calls[b][5]

C14_Witness ==
    /\ DelegatePlanBuilt /\ pc = "confirm"
    /\ trackIndices = << 2, 0 >>
    /\ conviction = "Locked6x" /\ network = "polkadot"
    /\ calls = << << "Delegate", 2, delegateTo, "Locked6x", [ units |-> 675, decimals |-> 10 ] >>,
                  << "Delegate", 0, delegateTo, "Locked6x", [ units |-> 675, decimals |-> 10 ] >> >>

(***************************************************************************)
(* Properties of the start of main: validation and exit status             *)
(***************************************************************************)
\* The command line gets past the usage / help exit
ArgsAccepted == IF prog = "delegate" THEN args.enough /\ ~args.help ELSE ~args.help

\* No chain interaction has taken place and nothing has been built
NoChainInteraction == conn = "none" /\ ~queried /\ calls = << >>

HasDuplicateTrack ==
    \E a, b \in 1..Len(trackIndices) : a /= b /\ trackIndices[a] = trackIndices[b]

\* C15: building a delegate plan from a track list that holds a track id more
\* than once is rejected: no plan is produced and no Delegate operation is
\* submitted for that request.
C15_DuplicateTracksRejected ==
    (prog = "delegate" /\ HasDuplicateTrack) =>
        /\ calls = << >>
        /\ pc \notin { "confirm", "loop", "await", "delay", "verify" }

AmountNotPositive == balanceAmount.isNaN \/ balanceAmount.value <= 0

\* C16: a delegate request whose amount is zero, negative or not a number is
\* rejected before any chain interaction, and no Delegate operation with a
\* balance <= 0 is ever built.
C16_NonPositiveAmountRejected ==
    prog = "delegate" =>
        /\ (ArgsAccepted /\ AmountNotPositive /\ pc /= "start") =>
              pc = "failed" /\ NoChainInteraction
        /\ \A k \in 1..Len(calls) : calls[k][5].units > 0

SevenConvictions ==
    { "None", "Locked1x", "Locked2x", "Locked3x", "Locked4x", "Locked5x", "Locked6x" }

UnknownNetwork ==
    IF prog = "delegate"
    THEN delegateNetworkName(networkArg) \notin { "kusama", "polkadot" }
    ELSE cleanupNetworkName(networkArg) \notin { "kusama", "polkadot" }

UnknownConviction == prog = "delegate" /\ conviction \notin SevenConvictions

\* C17: an unknown network name, or a conviction outside the seven names, is
\* detected before any chain interaction: the program stops with a nonzero
\* exit status, no connection is opened, no query is issued and no
\* transaction is built.
C17_BadNetworkOrConvictionStopsBeforeChain ==
    (ArgsAccepted /\ (UnknownNetwork \/ UnknownConviction) /\ pc /= "start") =>
        /\ pc = "failed"
        /\ exitCode >= 1
        /\ NoChainInteraction

ConvictionLevels ==
    << "None", "Locked1x", "Locked2x", "Locked3x", "Locked4x", "Locked5x", "Locked6x" >>
LevelOf(name) == CHOOSE n \in 1..Len(ConvictionLevels) : ConvictionLevels[n] = name
ExpectedLockMultiplier == << 0, 1, 2, 4, 8, 16, 32 >>
ExpectedVoteMultiplier ==
    << << 1, 10 >>, << 1, 1 >>, << 2, 1 >>, << 3, 1 >>, << 4, 1 >>, << 5, 1 >>, << 6, 1 >> >>
ExpectedLockDays ==
    [ kusama   |-> << 0, 7, 14, 28, 56, 112, 224 >>,
      polkadot |-> << 0, 28, 56, 112, 224, 448, 896 >> ]

\* lockDays has been computed from one of the seven convictions on a network
LockDaysComputed ==
    /\ prog = "delegate" /\ network \in { "kusama", "polkadot" }
    /\ conviction \in SevenConvictions

\* C18: for None, Locked1x .. Locked6x the lock-period multiplier is
\* 0,1,2,4,8,16,32 and the vote multiplier 0.1,1,2,3,4,5,6, and the projected
\* lock period is lockMultiplier x the network's base lock period:
\* 0,7,14,28,56,112,224 days on Kusama, 0,28,56,112,224,448,896 on Polkadot.
C18_ConvictionMultipliers ==
    /\ DOMAIN CONVICTION_MULTIPLIERS = SevenConvictions
    /\ NETWORKS.kusama.baseLockDays = 7 /\ NETWORKS.polkadot.baseLockDays = 28
    /\ \A n \in 1..Len(ConvictionLevels) :
          /\ CONVICTION_MULTIPLIERS[ConvictionLevels[n]].lockMultiplier = ExpectedLockMultiplier[n]
          /\ CONVICTION_MULTIPLIERS[ConvictionLevels[n]].multiplier = ExpectedVoteMultiplier[n]
    /\ LockDaysComputed =>
          /\ lockDays = Num(ExpectedLockDays[network][LevelOf(conviction)])
          /\ lockDays = Num(ExpectedLockMultiplier[LevelOf(conviction)]
                            * NETWORKS[network].baseLockDays)

C18_Witness ==
    /\ LockDaysComputed /\ pc = "connect"
    /\ conviction = "Locked3x" /\ network = "polkadot"
    /\ lockDays = Num(112)

PreSubmissionErrors ==
    { "usage", "network", "conviction", "range", "account", "nokey", "keyfile",
      "connect", "query", "encode" }

\* C20: any validation, connection, query or keyfile error before submission
\* makes the process exit with a nonzero status, in both programs (a failed
\* connection or state query in delegate and missing arguments included).
C20_EarlyErrorExitsNonzero ==
    error \in PreSubmissionErrors => exitCode >= 1

(***************************************************************************)
(* Properties of the submission loops                                      *)
(***************************************************************************)
Sends == SelectSeq(trace, LAMBDA e : e[1] = "send")
SettledCount(k, tr) ==
    Cardinality({ p \in 1..Len(tr) : tr[p][1] = "settled" /\ tr[p][2] = k })

\* C2: batches are submitted strictly one after the other, in plan order:
\* batch k+1 is signed and broadcast only after batch k's submission reached
\* a terminal state and the inter-batch delay then elapsed; never are two
\* submissions awaiting resolution; no delay follows the last batch.
C2_SequentialSubmission ==
    /\ \A p \in 1..Len(trace) :
          trace[p][1] = "send" =>
              IF trace[p][2] = 1
              THEN p = 1
              ELSE /\ p >= 3
                   /\ trace[p - 1] = << "delay", trace[p][2] - 1 >>
                   /\ trace[p - 2][1] = "settled"
                   /\ trace[p - 2][2] = trace[p][2] - 1
                   /\ trace[p - 2][3] \in TerminalOutcomes
    /\ \A j \in 1..Len(Sends) : Sends[j] = << "send", j >>
    /\ Cardinality({ k \in 1..Len(outcome) : outcome[k] = "pending" }) <= 1
    /\ \A k \in 1..Len(sub) :
          (k > 1 /\ sub[k] /= "none") => outcome[k - 1] \in TerminalOutcomes
    /\ \A p \in 1..Len(trace) : trace[p][1] = "delay" => trace[p][2] < Len(batches)
    /\ pc = "delay" => i < Len(batches) - 1

C2_Witness ==
    /\ Len(trace) >= 7
    /\ trace[1] = << "send", 1 >>
    /\ trace[3] = << "delay", 1 >>
    /\ trace[4] = << "send", 2 >>
    /\ trace[7] = << "send", 3 >>
    /\ outcome[3] = "pending"

\* C13: in dry-run mode no transaction is ever signed or broadcast, for any
\* plan, in the delegate and in the cleanup program: the run plans and logs,
\* asks for no confirmation, and ends without a sign-and-send for any batch.
C13_DryRunNeverSigns ==
    dryRun =>
        /\ Sends = << >>
        /\ \A k \in 1..Len(batches) :
              sub[k] = "none" /\ chain[k] = "none" /\ outcome[k] = "none"
        /\ pc \notin { "confirm", "await", "delay", "verify", "fatal", "crashed" }
        /\ prog = "delegate" => pc /= "loop" /\ batches = << >>
        /\ (pc = "done" /\ Len(calls) > 0) =>
              /\ exitCode = 0
              /\ prog = "cleanup" =>
                    trace = [ k \in 1..Len(batches) |-> << "dry", k >> ]

C13_Witness ==
    /\ dryRun /\ prog = "cleanup" /\ pc = "done"
    /\ Len(batches) = 2
    /\ trace = << << "dry", 1 >>, << "dry", 2 >> >>

AllChunksTerminal ==
    Len(batches) > 0 /\ \A k \in 1..Len(batches) : outcome[k] \in TerminalOutcomes
SomeChunkFailed == \E k \in 1..Len(batches) : outcome[k] \in FailureOutcomes

C3_DelegateContinuesAfterFailure ==
    prog = "delegate" =>
        /\ pc \notin { "fatal", "crashed" }
        /\ exitCode /= 1
        /\ \A k \in 1..Len(outcome) :
              (outcome[k] \in FailureOutcomes /\ k < Len(batches)) =>
                  \/ pc = "delay" /\ i = k - 1
                  \/ pc = "loop" /\ i = k
                  \/ sub[k + 1] /= "none"
        /\ (pc \in { "verify", "done" } /\ Len(batches) > 0) =>
              Sends = [ j \in 1..Len(batches) |-> << "send", j >> ]

C3_Witness ==
    /\ prog = "delegate" /\ pc = "done"
    /\ outcome = << "DispatchFailed", "TimedOut", "Finalized" >>

CleanupGoesOnAfter(k) ==
    \/ pc = "delay" /\ i = k - 1
    \/ pc = "loop" /\ i = k
    \/ sub[k + 1] /= "none"

ReceivedFinalizedWithError(k) ==
    sub[k] = "live" /\ chain[k] = "finalized" /\ failed[k]

\* C5: a submission that receives Finalized together with a dispatch error
\* (ExtrinsicFailed) is resolved as DispatchFailed and never as a success, in
\* both loops (in delegate, unless the deadline had resolved it before).
C5_FinalizedWithErrorIsDispatchFailed ==
    \A k \in 1..Len(outcome) :
        ReceivedFinalizedWithError(k) =>
            /\ outcome[k] /= "Finalized"
            /\ outcome[k] = IF timer[k] = "fired" THEN "TimedOut" ELSE "DispatchFailed"

C5_Witness ==
    /\ prog = "cleanup"
    /\ \E k \in 1..Len(outcome) :
          ReceivedFinalizedWithError(k) /\ outcome[k] = "DispatchFailed"

TerminalStatusDelivered(k) ==
    /\ sub[k] = "live"
    /\ \/ chain[k] \in { "finalized", "dropped", "invalid", "usurped" }
       \/ chain[k] = "inBlock" /\ failed[k]

\* C6: in the delegate monitor a Finalized notification without dispatch
\* error that arrives before the deadline timer has fired resolves the
\* submission as Finalized and cancels the timer, which then never fires, so
\* the submission is never TimedOut; a submission becomes TimedOut only when
\* the deadline is reached and no terminal status has been delivered.
C6_FinalizedBeforeDeadline ==
    [][ prog = "delegate" =>
          \A k \in 1..Len(outcome) :
              /\ ( /\ sub[k] = "live" /\ timer[k] = "armed"
                   /\ chain[k] = "inBlock" /\ ~failed[k]
                   /\ chain'[k] = "finalized" )
                 => ( outcome'[k] = "Finalized" /\ timer'[k] = "cleared" )
              /\ timer[k] = "cleared" => timer'[k] = "cleared"
              /\ outcome[k] = "Finalized" => outcome'[k] = "Finalized"
              /\ ( outcome[k] /= "TimedOut" /\ outcome'[k] = "TimedOut" )
                 => ( /\ timer[k] = "armed" /\ clock = 0
                      /\ ~TerminalStatusDelivered(k) )
      ]_vars

C6_Witness ==
    /\ prog = "delegate"
    /\ \E k \in 1..Len(outcome) :
          /\ outcome[k] = "Finalized" /\ timer[k] = "cleared"
          /\ k = i + 1 /\ clock > 0

\* C7: in the delegate monitor, when the deadline timer fires before any
\* terminal status the submission is resolved as TimedOut; a terminal result
\* never changes afterwards, whatever status arrives later; every submission
\* yields one terminal result, never two.
C7_TimedOutIsFinal ==
    [][ prog = "delegate" =>
          /\ \A k \in 1..Len(outcome) :
                /\ ( timer[k] = "armed" /\ timer'[k] = "fired" ) => outcome'[k] = "TimedOut"
                /\ outcome[k] \in TerminalOutcomes => outcome'[k] = outcome[k]
                /\ SettledCount(k, trace') <= 1
                /\ outcome'[k] \in TerminalOutcomes <=> SettledCount(k, trace') = 1
      ]_vars

C7_Witness ==
    /\ prog = "delegate"
    /\ \E k \in 1..Len(outcome) :
          /\ timer[k] = "fired" /\ outcome[k] = "TimedOut"
          /\ sub[k] = "live" /\ chain[k] = "finalized"

(***************************************************************************)
(* Properties of the endings of a run                                      *)
(***************************************************************************)
\* The run has ended on an error
FatalEnd == pc \in { "failed", "fatal", "crashed" } /\ exitCode /= -1
ConnectionOpened == conn \in { "open", "closed" }

\* C21: on every fatal path taken after the connection has been opened (a
\* failed state query, a missing keyfile found after connecting, a fatal error
\* during submission) the connection is disconnected before the process exits.
C21_FatalPathsDisconnect == (FatalEnd /\ ConnectionOpened) => conn = "closed"

\* A query of the read has failed
ReadFailed == prog = "cleanup" /\ error = "query"

\* C22: when a query made while the voting state is read fails (the voting
\* entries, the header or the class locks), the read aborts as a whole: no
\* voting state is returned, not even the part already scanned, no plan is
\* built and no batch is submitted; the run ends on the error.
C22_FailedReadAbortsWhole ==
    ReadFailed =>
        /\ info = EmptyInfo
        /\ calls = << >>
        /\ batches = << >>
        /\ sent = << >>
        /\ trace = << >>
        /\ answer = "unasked"
        /\ pc = "failed"
        /\ exitCode = 1

\* The class locks query failed after the entries had been scanned
C22_Witness ==
    /\ ReadFailed
    /\ locals.delegations /= << >>
    /\ locals.priorLocks /= << >>
    /\ info = EmptyInfo
    /\ pc = "failed"

\* What the read returned calls for no operation
NothingToClean ==
    /\ \A a \in 1..Len(info.priorLocks) : ~info.priorLocks[a].isExpired
    /\ unlockOnly \/ (info.delegations = << >> /\ info.votes = << >>)

\* C23: a cleanup plan that holds no operation is "nothing to do", not an
\* error: no confirmation is asked, no transaction is signed, the connection
\* is disconnected and the run exits with status 0.  The plan is empty
\* exactly when there is nothing to undelegate, no vote to remove and no
\* expired lock (or, with --unlock-only, no expired lock).
C23_EmptyPlanIsNothingToDo ==
    CleanupPlanBuilt =>
        /\ calls = << >> <=> NothingToClean
        /\ calls = << >> =>
              /\ pc = "done"
              /\ exitCode = 0
              /\ conn = "closed"
              /\ error = "none"
              /\ answer = "unasked"
              /\ batches = << >>
              /\ sent = << >>
              /\ trace = << >>

\* Nothing to do although a delegation exists and a lock is pending: --unlock-only
C23_Witness ==
    /\ CleanupPlanBuilt /\ calls = << >> /\ pc = "done"
    /\ unlockOnly
    /\ info.delegations /= << >>
    /\ info.priorLocks /= << >>

(***************************************************************************)
(* Properties of the transactions                                          *)
(***************************************************************************)
\* The operations of the plan that make up batch k
PlanSlice(k) == SubSeq(calls, (k - 1) * BatchLimit + 1, Min(k * BatchLimit, Len(calls)))

\* C24: every transaction signed and broadcast is exactly one proxy call
\* naming the target account, whose inner call is exactly one batchAll
\* holding exactly the operations of one batch, in plan order.  Two
\* transactions never hold operations of the same batch, and no transaction
\* holds operations of two batches.
C24_OneProxyBatchAllPerChunk ==
    /\ Len(sent) = Len(Sends)
    /\ \A p \in 1..Len(sent) :
          LET tx == sent[p]
              k == Sends[p][2]
          IN  /\ tx.section = "proxy" /\ tx.method = "proxy"
              /\ tx.real = targetAccount
              /\ tx.forceProxyType = "null"
              /\ tx.call.section = "utility" /\ tx.call.method = "batchAll"
              /\ Batch(k)
              /\ tx.call.calls = batches[k]
              /\ tx.call.calls = PlanSlice(k)
              /\ Len(tx.call.calls) \in 1..BatchLimit
    /\ \A p, q \in 1..Len(sent) : p /= q => Sends[p][2] /= Sends[q][2]

\* A cleanup plan of six operations went out as two transactions, the
\* second after the first was finalized
C24_Witness ==
    /\ prog = "cleanup" /\ Len(sent) = 2
    /\ Len(sent[1].call.calls) = 4
    /\ Len(sent[2].call.calls) = 2
    /\ sent[1].call.calls \o sent[2].call.calls = calls
    /\ outcome[1] = "Finalized"

(***************************************************************************)
(* Termination of the submission loops                                     *)
(***************************************************************************)
InDelegateLoop == prog = "delegate" /\ pc \in { "loop", "await", "delay" }

\* A submission that has not settled still has its deadline ahead of it
DeadlineAhead ==
    prog = "delegate" =>
        \A k \in 1..Len(batches) :
            outcome[k] = "pending" => timer[k] = "armed" /\ clock \in 0..TimeoutTicks

DelegateLoopEnded ==
    /\ prog = "delegate" /\ pc = "verify"
    /\ Sends = [ k \in 1..Len(batches) |-> << "send", k >> ]
    /\ \A k \in 1..Len(batches) : outcome[k] \in TerminalOutcomes

\* C25: with a fair deadline timer the delegate loop always terminates:
\* every broadcast submission settles on one terminal outcome no later than
\* its deadline, whatever the chain does or fails to do, and the loop
\* reaches its end after it has attempted every batch.
C25_DelegateLoopTerminates ==
    /\ []DeadlineAhead
    /\ InDelegateLoop ~> DelegateLoopEnded

\* The loop ended after the chain never answered the first batch
C25_Witness ==
    /\ DelegateLoopEnded
    /\ Len(batches) = 2
    /\ outcome[1] = "TimedOut" /\ sub[1] = "pending"
    /\ outcome[2] = "Finalized"

\* C26: every cleanup submission reaches a terminal outcome: a Dropped,
\* Invalid or Usurped status, a transport failure of the send, or the absence
\* of a terminal status within the deadline resolves the submission instead
\* of leaving the loop waiting.  (Here: once the pool has rejected the
\* transaction or the send has failed, the awaited promise is settled.)
C26_CleanupSubmissionResolves ==
    prog = "cleanup" =>
        \A k \in 1..Len(batches) :
            /\ (sub[k] = "live" /\ chain[k] \in { "dropped", "invalid", "usurped" }) =>
                    outcome[k] \in TerminalOutcomes
            /\ sub[k] = "failed" => outcome[k] \in TerminalOutcomes

(***************************************************************************)
(* Properties of the outcome of a submission                               *)
(***************************************************************************)
\* C27: in delegate.js an extrinsic failure reported with the InBlock status
\* settles the submission as DispatchFailed, and nothing that follows, the
\* Finalized status included, turns it into another outcome.
C27_InBlockFailureIsFinal ==
    [][ prog = "delegate" =>
          \A k \in 1..Len(batches) :
              /\ ( /\ sub[k] = "live" /\ outcome[k] = "pending"
                   /\ chain[k] = "ready" /\ chain'[k] = "inBlock" /\ failed'[k] )
                 => outcome'[k] = "DispatchFailed"
              /\ outcome[k] = "DispatchFailed" =>
                    outcome'[k] = "DispatchFailed" /\ failed'[k]
      ]_vars

\* The failed extrinsic's block has been finalized and the status delivered
C27_Witness ==
    /\ prog = "delegate" /\ Len(batches) >= 1
    /\ sub[1] = "live" /\ failed[1] /\ chain[1] = "finalized"
    /\ outcome[1] = "DispatchFailed"
    /\ timer[1] = "cleared"

\* How many times batch k has been signed and sent
SendCount(k) == Cardinality({ p \in 1..Len(Sends) : Sends[p][2] = k })

\* C28: no batch is ever retried: in both loops each batch is signed and
\* broadcast at most once, whatever its outcome; a batch that timed out or
\* failed has been sent exactly once and is not sent again.
C28_NoChunkRetried ==
    /\ Len(sent) <= Len(batches)
    /\ \A k \in 1..Len(batches) :
          /\ SendCount(k) <= 1
          /\ outcome[k] /= "none" => SendCount(k) = 1
          /\ (outcome[k] \in FailureOutcomes /\ pc = "loop") => i >= k

\* The first batch was dropped, the loop went on and ended; batch 1 was sent once
C28_Witness ==
    /\ prog = "delegate" /\ pc = "verify" /\ Len(batches) = 2
    /\ outcome[1] = "Dropped"
    /\ outcome[2] = "TimedOut"
    /\ SendCount(1) = 1 /\ SendCount(2) = 1

(***************************************************************************)
(* Properties of the read while blocks arrive                              *)
(***************************************************************************)
\* The lock record was judged against the given height
JudgedAgainst(lock, height) ==
    /\ lock.isExpired <=> height >= lock.unlockBlock
    /\ lock.blocksRemaining = Max(0, lock.unlockBlock - height)

\* C29: the read of the voting state takes the chain's height exactly once,
\* before any track is classified, and judges every track's lock against
\* that one value: blocks that arrive during or after the read change
\* neither the height the read holds nor any track's classification.
C29_HeightReadOnce ==
    [][ prog = "cleanup" =>
          /\ pc \in { "query", "header" } => locals = EmptyInfo
          /\ (pc = "header" /\ pc' = "classLocks") =>
                /\ locals'.currentBlock = chainBlock
                /\ \A a \in 1..Len(locals'.priorLocks) :
                      JudgedAgainst(locals'.priorLocks[a], chainBlock)
          /\ pc /= "header" => locals' = locals
          /\ info' /= info => pc = "classLocks" /\ info' = locals
      ]_vars

\* Two blocks arrived after the header was read at height 1: the lock due at
\* height 2 is still held as Pending, the lock due at height 1 as Expired
C29_Witness ==
    /\ prog = "cleanup" /\ pc = "confirm"
    /\ info.currentBlock = 1 /\ chainBlock = 3
    /\ Len(info.priorLocks) = 2
    /\ \E a, b \in 1..2 :
          /\ info.priorLocks[a].isExpired /\ info.priorLocks[a].unlockBlock = 1
          /\ ~info.priorLocks[b].isExpired /\ info.priorLocks[b].unlockBlock = 2

(***************************************************************************)
(* Properties of the confirmation                                          *)
(***************************************************************************)
\* The answers that confirm, in any case of the letters
Affirmative ==
    IF prog = "delegate" THEN { "yes", "YES" } ELSE { "yes", "YES", "y", "Y" }

Asked == answer /= "unasked"

\* C30: outside dry-run mode no transaction is signed unless the user
\* answered the prompt affirmatively ("yes" for delegate.js; "yes" or "y"
\* for governance-cleanup.js, in any case of the letters).  On any other
\* answer no batch is submitted, the connection is disconnected and the run
\* ends.
C30_NoSignWithoutYes ==
    ~dryRun =>
        /\ sent /= << >> => answer \in Affirmative
        /\ pc \in { "submit", "loop", "await", "delay", "verify", "complete", "fatal",
                     "crashed" } => answer \in Affirmative
        /\ (Asked /\ answer \notin Affirmative) =>
              /\ pc = "done"
              /\ exitCode = 0
              /\ conn = "closed"
              /\ batches = << >>
              /\ sent = << >>
              /\ trace = << >>

\* delegate.js was answered "y": the run was aborted and disconnected
C30_Witness ==
    /\ ~dryRun /\ prog = "delegate" /\ answer = "y"
    /\ Len(calls) > 0
    /\ pc = "done" /\ conn = "closed" /\ sent = << >>

(***************************************************************************)
(* Properties of success                                                   *)
(***************************************************************************)
\* C31: a submission resolves as successful only on a Finalized notification
\* that carries no dispatch error.  An InBlock notification without an error
\* settles nothing: the awaited promise, the position of the loop and its
\* index stay as they are, so the next batch is not started by it.
C31_SuccessOnlyOnCleanFinalized ==
    [][ \A k \in 1..Len(batches) :
          /\ (outcome[k] /= "Finalized" /\ outcome'[k] = "Finalized") =>
                /\ sub[k] = "live"
                /\ chain[k] = "inBlock" /\ chain'[k] = "finalized"
                /\ ~failed'[k]
          /\ (chain[k] = "ready" /\ chain'[k] = "inBlock" /\ ~failed'[k]) =>
                /\ outcome'[k] = outcome[k]
                /\ pc' = pc /\ i' = i
                /\ trace' = trace /\ sent' = sent
          /\ outcome[k] = "Finalized" => chain[k] = "finalized" /\ ~failed[k]
      ]_vars

\* The first cleanup batch is in a block without an error: the loop still
\* waits and the second batch has not been sent
C31_Witness ==
    /\ prog = "cleanup" /\ Len(batches) = 2
    /\ sub[1] = "live" /\ chain[1] = "inBlock" /\ ~failed[1]
    /\ outcome[1] = "pending" /\ pc = "await" /\ i = 0
    /\ Len(sent) = 1

(***************************************************************************)
(* Properties of the order of the batches                                  *)
(***************************************************************************)
\* In the given batches no Unlock lies in a batch before a batch holding an
\* Undelegate or a RemoveVote
UnlocksNotBefore(bs) ==
    \A a, b \in 1..Len(bs) :
        \A x \in 1..Len(bs[a]), y \in 1..Len(bs[b]) :
            (Kind(bs[a][x]) = "Unlock" /\ Kind(bs[b][y]) \in { "Undelegate", "RemoveVote" })
                => a >= b

\* C32: for every voting state and every batch limit, once the cleanup plan
\* is built and split, the batch index of every Unlock is greater than or
\* equal to the batch index of every Undelegate and of every RemoveVote: no
\* Unlock is submitted in a batch before a batch that undelegates or
\* removes a vote.
C32_UnlockNeverInEarlierChunk ==
    CleanupPlanBuilt =>
        /\ \A size \in 1..MaxBatchLimit : UnlocksNotBefore(chunkArray(calls, size))
        /\ SplitDone => UnlocksNotBefore(batches)

\* Six operations in two batches: four RemoveVote, then two Unlock; with a
\* limit of three an Unlock shares the second batch with a RemoveVote
C32_Witness ==
    /\ CleanupPlanBuilt /\ SplitDone /\ Len(batches) = 2
    /\ \A x \in 1..Len(batches[1]) : Kind(batches[1][x]) = "RemoveVote"
    /\ \A y \in 1..Len(batches[2]) : Kind(batches[2][y]) = "Unlock"
    /\ LET bs == chunkArray(calls, 3)
       IN  /\ Len(bs) = 2
           /\ Kind(bs[2][1]) = "RemoveVote"
           /\ Kind(bs[2][2]) = "Unlock"

(***************************************************************************)
(* Properties of the transactions in flight                                *)
(***************************************************************************)
\* The transaction of batch k can no longer take effect: it is finalized, the
\* pool has rejected it, or it never left (signAndSend failed)
NotLive(k) ==
    \/ chain[k] \in { "finalized", "dropped", "invalid", "usurped" }
    \/ sub[k] = "failed"

\* C33: in the delegate loop, once batch k+1 has been signed and broadcast
\* the transaction of batch k is no longer live on the chain side (it is
\* finalized or rejected): no two transactions signed by the proxy key are
\* pending at the same time, also after batch k resolved as TimedOut.
C33_PreviousNotLiveAtSend ==
    prog = "delegate" =>
        \A k \in 1..Len(batches) :
            (k > 1 /\ outcome[k] /= "none") => NotLive(k - 1)

====
